---- MODULE Spec2Model ----
(***************************************************************************)
(* Model of src/main.js: the one-shot redraw scheduler (markDirty/frame),  *)
(* the context lost/restored handlers, GL initialisation, the camera       *)
(* state with its view-projection upload, and the UI binder.               *)
(*                                                                         *)
(* Numbers are fixed point in thousandths (1.0 is 1000), which represents  *)
(* exactly the constants 0.001, 0.05 and 0.01 of the source.  state.ang is *)
(* kept in thousandths of a radian.  DOM strings are sequences of          *)
(* one-character strings.  GL handles are tagged with the number of the    *)
(* initGL call that created them; 0 stands for null/undefined.             *)
(***************************************************************************)
EXTENDS Integers, Sequences, FiniteSets, TLC

\* ---------------------------------------------------------------- bounds
MaxRaf == 2      \* requestAnimationFrame ids handed out in a run
MaxLoss == 1     \* context-lost events in a run
MaxSegments == 96   \* largest segments argument given to makePolygonVAO
MaxVerts == 4       \* longest flat vertex list given to makeVAO
MaxEntry == 2       \* largest absolute value of a matrix entry
MaxNonZero == 2     \* non-zero entries of a matrix given to mat4Mul

\* ------------------------------------------------------- numbers, strings
Null == 0
NaN == -999999999
Undefined == -999999998     \* the value of a parameter that got no argument
Infinity == 999999999
Unit == 1000
PiMilli == 3142     \* Math.PI in thousandths

Min2(a, b) == IF a < b THEN a ELSE b
Max2(a, b) == IF a > b THEN a ELSE b

\* Math.max / Math.min: NaN if an argument is NaN
MathMax(a, b) == IF a = NaN \/ b = NaN THEN NaN ELSE Max2(a, b)
MathMin(a, b) == IF a = NaN \/ b = NaN THEN NaN ELSE Min2(a, b)

clamp(v, lo, hi) == MathMin(hi, MathMax(lo, v))

DigitChars == <<"0", "1", "2", "3", "4", "5", "6", "7", "8", "9">>
Digits == {"0", "1", "2", "3", "4", "5", "6", "7", "8", "9"}
IsDigit(ch) == ch \in Digits
DigitVal(ch) ==
    CASE ch = "0" -> 0 [] ch = "1" -> 1 [] ch = "2" -> 2 [] ch = "3" -> 3
      [] ch = "4" -> 4 [] ch = "5" -> 5 [] ch = "6" -> 6 [] ch = "7" -> 7
      [] ch = "8" -> 8 [] ch = "9" -> 9
AllDigits(s) == \A i \in 1..Len(s) : IsDigit(s[i])

RECURSIVE DigitsVal(_)
DigitsVal(s) ==
    IF s = <<>> THEN 0
    ELSE DigitsVal(SubSeq(s, 1, Len(s) - 1)) * 10 + DigitVal(s[Len(s)])

\* the fraction digits of a decimal literal, in thousandths
FracVal(f) ==
    LET d(i) == IF i <= Len(f) THEN DigitVal(f[i]) ELSE 0
    IN d(1) * 100 + d(2) * 10 + d(3)

\* an unsigned decimal literal: digits, optionally a dot and digits
IsDecimal(b) ==
    LET dots == {i \in 1..Len(b) : b[i] = "."}
    IN \/ b # <<>> /\ AllDigits(b)
       \/ /\ Cardinality(dots) = 1
          /\ LET p == CHOOSE i \in dots : TRUE
             IN /\ AllDigits(SubSeq(b, 1, p - 1))
                /\ AllDigits(SubSeq(b, p + 1, Len(b)))
                /\ Len(b) > 1
DecimalVal(b) ==
    LET dots == {i \in 1..Len(b) : b[i] = "."}
    IN IF dots = {} THEN DigitsVal(b) * Unit
       ELSE LET p == CHOOSE i \in dots : TRUE
            IN DigitsVal(SubSeq(b, 1, p - 1)) * Unit
               + FracVal(SubSeq(b, p + 1, Len(b)))

Unsigned(s) == IF s # <<>> /\ s[1] = "-" THEN Tail(s) ELSE s

\* the HTML "valid floating-point number" test used by the input elements
IsValidFloat(s) == IsDecimal(Unsigned(s))
ParseFloat(s) ==
    IF s[1] = "-" THEN 0 - DecimalVal(Unsigned(s)) ELSE DecimalVal(s)

\* unary plus on a string, +v  (main.js:392): "" is 0, a non-number is NaN
ToNumber(s) ==
    IF s = <<>> THEN 0
    ELSE IF IsValidFloat(s) THEN ParseFloat(s)
    ELSE NaN

RECURSIVE UIntStr(_)
UIntStr(k) ==
    IF k < 10 THEN <<DigitChars[k + 1]>>
    ELSE UIntStr(k \div 10) \o <<DigitChars[(k % 10) + 1]>>

FracStr(f) ==
    LET full == <<DigitChars[(f \div 100) + 1], DigitChars[((f \div 10) % 10) + 1],
                  DigitChars[(f % 10) + 1]>>
        keep == IF f % 10 # 0 THEN 3 ELSE IF f % 100 # 0 THEN 2 ELSE 1
    IN SubSeq(full, 1, keep)

\* String(number)  (main.js:449-451)
NumberToString(n) ==
    IF n = NaN THEN <<"N", "a", "N">>
    ELSE LET a == IF n < 0 THEN 0 - n ELSE n
             body == UIntStr(a \div Unit)
                     \o (IF a % Unit = 0 THEN <<>> ELSE <<".">> \o FracStr(a % Unit))
         IN IF n < 0 THEN <<"-">> \o body ELSE body

\* arithmetic on fixed-point numbers, NaN-propagating
Mul(a, b) == IF a = NaN \/ b = NaN THEN NaN ELSE (a * b) \div Unit
Div(a, b) ==
    IF a = NaN \/ b = NaN THEN NaN
    ELSE IF b = 0 THEN (IF a = 0 THEN NaN ELSE Infinity)
    ELSE (a * Unit) \div b
Neg(a) == IF a = NaN THEN NaN ELSE 0 - a

\* ------------------------------------------------------------- the page
Controls == {"cx", "cy", "ang", "zoom", "fov", "camz"}
\* order of the bindControl calls, main.js:410-419
BindOrder == <<"cx", "cy", "ang", "zoom", "fov", "camz">>
GeoKeys == {"point", "line", "tri", "square", "circle", "hexagon"}
Modes == {"ortho", "persp"}

\* values of the numeric fields in the page markup
HtmlValue ==
    [cx |-> <<"0">>, cy |-> <<"0">>, ang |-> <<"0">>,
     zoom |-> <<"1">>, fov |-> <<"6", "0">>, camz |-> <<"3">>]

\* min and max attributes of the sliders in the page markup
RangeAttr ==
    [cx   |-> [min |-> -5000,   max |-> 5000],
     cy   |-> [min |-> -5000,   max |-> 5000],
     ang  |-> [min |-> -180000, max |-> 180000],
     zoom |-> [min |-> 100,     max |-> 10000],
     fov  |-> [min |-> 1000,    max |-> 179000],
     camz |-> [min |-> 50,      max |-> 10000]]

\* strings an input event of the numeric field can deliver (e.target.value):
\* numbers inside and outside the clamped range, the empty string and a
\* string that is not a number
NumInputs ==
    [cx   |-> {<<"-", "1", ".", "5">>},
     cy   |-> {<<"7">>},
     ang  |-> {<<"9", "0">>},
     zoom |-> {<<"0">>, <<"-", "2">>, <<"x">>},
     fov  |-> {<<"5", "0", "0">>, <<>>},
     camz |-> {<<"0">>}]

\* strings an input event of the slider can deliver: within its min..max
RangeInputs ==
    [cx   |-> {<<"0">>},
     cy   |-> {<<"0">>},
     ang  |-> {<<"0">>},
     zoom |-> {<<"1">>},
     fov  |-> {<<"6", "0">>},
     camz |-> {<<"3">>}]

\* window.innerWidth * dpr, window.innerHeight * dpr after Math.floor
WindowSizes == {[w |-> 800, h |-> 600], [w |-> 600, h |-> 600]}
\* size of a canvas element before any script sets it
CanvasDefault == [w |-> 300, h |-> 150]

\* value setter of a slider: an invalid number becomes the default value
\* (the midpoint), a valid one is clamped into min..max
SetRangeValue(c, s) ==
    LET a == RangeAttr[c]
    IN IF ~IsValidFloat(s)
       THEN NumberToString(a.min + (a.max - a.min) \div 2)
       ELSE LET n == ParseFloat(s)
            IN IF n < a.min THEN NumberToString(a.min)
               ELSE IF n > a.max THEN NumberToString(a.max)
               ELSE s

\* value setter of a numeric field: an invalid number becomes ""
SetNumValue(s) == IF IsValidFloat(s) THEN s ELSE <<>>

VARIABLES
    state,      \* the state object, main.js:21-39
    rangeVal,   \* .value of the six sliders
    numVal,     \* .value of the six numeric fields
    disabled,   \* .disabled of the six control pairs
    checked,    \* which mode radio button is checked
    canvas,     \* canvas.width, canvas.height
    win,        \* size the window asks for
    raf,        \* the browser's animation-frame callbacks
    gl,         \* the WebGL2 context
    pc,         \* position of the top-level script
    nbound,     \* bindControl calls done
    obs,        \* observations of the run used to state properties
    calc        \* the library call or render pass followed step by step

page == <<state, rangeVal, numVal, disabled, checked, canvas, win, raf, gl, pc,
          nbound, obs>>
vars == <<page, calc>>

\* no library call is being followed
NoCall == [fn |-> "none"]

\* ---------------------------------------------------------------- camera
ZeroMat == [fn |-> "zero"]

mat4Perspective(fovDeg, aspect, near, far) ==
    [fn |-> "mat4Perspective", fovDeg |-> fovDeg, aspect |-> aspect,
     near |-> near, far |-> far]

mat4Ortho(l, r, b, t, n, f) ==
    [fn |-> "mat4Ortho", l |-> l, r |-> r, b |-> b, t |-> t, n |-> n, f |-> f]

mat4View(cx, cy, cz, angZ) ==
    [fn |-> "mat4View", cx |-> cx, cy |-> cy, cz |-> cz, angZ |-> angZ]

\* the divisor of the orthographic half-height
orthoDivisor(s) == MathMax(1, s.zoom)

computeViewProj(s, cv) ==
    LET aspect == Div(cv.w, cv.h)
        halfH == Div(Unit, orthoDivisor(s))
        halfW == Mul(halfH, aspect)
        P == IF s.mode = "persp"
             THEN mat4Perspective(s.fovDeg, aspect, s.near, s.far)
             ELSE mat4Ortho(Neg(halfW), halfW, Neg(halfH), halfH,
                            -10 * Unit, 10 * Unit)
        V == mat4View(s.cx, s.cy, s.cz, s.ang)
    IN [fn |-> "mat4Mul", B |-> P, A |-> V]

\* gl.uniformMatrix4fv on a location of program loc: dropped when the
\* context is lost or the location is not of the program in use
uniformMatrix4fv(g, loc, m) ==
    IF ~g.lost /\ g.program # Null /\ g.program = loc
    THEN [g EXCEPT !.viewProj = m]
    ELSE g

uploadViewProj(s, g, cv) ==
    IF s.uniforms = Null THEN g
    ELSE uniformMatrix4fv(g, s.uniforms, computeViewProj(s, cv))

\* ------------------------------------------------------------- scheduler
requestAnimationFrame(r) ==
    [queue |-> r.queue \cup {r.issued + 1}, issued |-> r.issued + 1,
     sinceFrame |-> r.sinceFrame + 1]

cancelAnimationFrame(r, id) == [r EXCEPT !.queue = r.queue \ {id}]

\* markDirty without the test of state._raf
markDirtyAlways(s, r) ==
    LET r1 == requestAnimationFrame(r)
    IN [s |-> [s EXCEPT !._dirty = TRUE, !._raf = r1.issued], r |-> r1]

\* markDirty that requests the callback but leaves the flag alone
markDirtyNoFlag(s, r) ==
    IF s._raf = 0
    THEN LET r1 == requestAnimationFrame(r)
         IN [s |-> [s EXCEPT !._raf = r1.issued], r |-> r1]
    ELSE [s |-> s, r |-> r]

markDirty(s, r) ==
    LET s1 == [s EXCEPT !._dirty = TRUE]
    IN IF s1._raf = 0
       THEN LET r1 == requestAnimationFrame(r)
            IN [s |-> [s1 EXCEPT !._raf = r1.issued], r |-> r1]
       ELSE [s |-> s1, r |-> r]

\* a handler that may request a callback runs only within the id budget
CanMark == state._raf # 0 \/ raf.issued < MaxRaf

\* ------------------------------------------------------------ GL set-up
CompileOutcomes == {"ok", "vertexCompileError", "fragmentCompileError", "linkError"}

\* compile, linkProgram and initProgram: a failing stage throws before
\* anything is stored
initProgram(s, g, tag, outcome) ==
    IF outcome # "ok"
    THEN [s |-> s, g |-> g, ok |-> FALSE]
    ELSE [s |-> [s EXCEPT !.program = tag, !.uniforms = tag],
          g |-> [g EXCEPT !.program = tag, !.viewProj = ZeroMat],
          ok |-> TRUE]

\* initGeometry that keeps a descriptor it already has
initGeometryCached(s, tag) ==
    [s EXCEPT !.geo = [k \in GeoKeys |-> IF s.geo[k] = Null THEN tag ELSE s.geo[k]]]

initGeometry(s, tag) == [s EXCEPT !.geo = [k \in GeoKeys |-> tag]]

initGL(s, r, g, cv, outcome) ==
    LET tag == g.gen + 1
        p == initProgram(s, [g EXCEPT !.gen = tag], tag, outcome)
    IN IF ~p.ok
       THEN [s |-> p.s, r |-> r, g |-> p.g, ok |-> FALSE]
       ELSE LET s2 == initGeometry(p.s, tag)
                g2 == uploadViewProj(s2, p.g, cv)
                m == markDirty(s2, r)
            IN [s |-> m.s, r |-> m.r, g |-> g2, ok |-> TRUE]

\* ------------------------------------------------------------------ math
\* cosine and sine on [0, pi/2] by their Taylor polynomials, in thousandths
CosQ(x) ==
    LET x2 == (x * x) \div Unit
        x4 == (x2 * x2) \div Unit
        x6 == (x4 * x2) \div Unit
        x8 == (x6 * x2) \div Unit
    IN Unit - x2 \div 2 + x4 \div 24 - x6 \div 720 + x8 \div 40320
SinQ(x) ==
    LET x2 == (x * x) \div Unit
        x3 == (x2 * x) \div Unit
        x5 == (x3 * x2) \div Unit
        x7 == (x5 * x2) \div Unit
    IN x - x3 \div 6 + x5 \div 120 - x7 \div 5040

\* Math.cos and Math.sin of an angle in thousandths of a radian
MathCos(a) ==
    IF a = NaN THEN NaN
    ELSE LET r == a % (2 * PiMilli)
             h == PiMilli \div 2
         IN IF r <= h THEN CosQ(r)
            ELSE IF r <= PiMilli THEN 0 - CosQ(PiMilli - r)
            ELSE IF r <= PiMilli + h THEN 0 - CosQ(r - PiMilli)
            ELSE CosQ(2 * PiMilli - r)
MathSin(a) ==
    IF a = NaN THEN NaN
    ELSE LET r == a % (2 * PiMilli)
             h == PiMilli \div 2
         IN IF r <= h THEN SinQ(r)
            ELSE IF r <= PiMilli THEN SinQ(PiMilli - r)
            ELSE IF r <= PiMilli + h THEN 0 - SinQ(r - PiMilli)
            ELSE 0 - SinQ(2 * PiMilli - r)

\* a + b on numbers, NaN-propagating
Add(a, b) == IF a = NaN \/ b = NaN THEN NaN ELSE a + b

\* -------------------------------------------------------------- matrices
\* a matrix is the sequence of the 16 elements of its Float32Array: element
\* k of the array is m[k + 1]
idx4(r, c) == c * 4 + r

\* a value as stored into a Float32Array element: undefined becomes NaN
Float32(v) == IF v = Undefined THEN NaN ELSE v

\* new Float32Array(16)
ZeroArray == [k \in 1..16 |-> 0]

mat4Identity ==
    [ZeroArray EXCEPT ![0 + 1] = Unit, ![5 + 1] = Unit, ![10 + 1] = Unit,
                      ![15 + 1] = Unit]

\* mat4Mul that reads A by idx4(c, k) instead of idx4(k, c)
mat4MulTransposed(B, A) ==
    [k \in 1..16 |->
        LET r == (k - 1) % 4
            c == (k - 1) \div 4
        IN Add(Add(Add(Mul(B[idx4(r, 0) + 1], A[idx4(c, 0) + 1]),
                       Mul(B[idx4(r, 1) + 1], A[idx4(c, 1) + 1])),
                   Mul(B[idx4(r, 2) + 1], A[idx4(c, 2) + 1])),
               Mul(B[idx4(r, 3) + 1], A[idx4(c, 3) + 1]))]

\* mat4Mul(B, A): the array o, element idx4(r, c) for r, c in 0..3
mat4Mul(B, A) ==
    [k \in 1..16 |->
        LET r == (k - 1) % 4
            c == (k - 1) \div 4
        IN Add(Add(Add(Mul(B[idx4(r, 0) + 1], A[idx4(0, c) + 1]),
                       Mul(B[idx4(r, 1) + 1], A[idx4(1, c) + 1])),
                   Mul(B[idx4(r, 2) + 1], A[idx4(2, c) + 1])),
               Mul(B[idx4(r, 3) + 1], A[idx4(3, c) + 1]))]

\* the three arrays after a call of mat4Mul(B, A): the loop writes o only
mat4MulArrays(B, A) == [o |-> mat4Mul(B, A), B |-> B, A |-> A]

mat4Translate(tx, ty, tz) ==
    [mat4Identity EXCEPT ![12 + 1] = Float32(tx), ![13 + 1] = Float32(ty),
                         ![14 + 1] = Float32(tz)]

mat4Scale(sx, sy, sz) ==
    [mat4Identity EXCEPT ![0 + 1] = Float32(sx), ![5 + 1] = Float32(sy),
                         ![10 + 1] = Float32(sz)]

mat4RotateZ(a) ==
    LET c == MathCos(Float32(a))
        s == MathSin(Float32(a))
    IN [mat4Identity EXCEPT ![0 + 1] = c, ![4 + 1] = Neg(s),
                            ![1 + 1] = s, ![5 + 1] = c]

mat4TRS(tx, ty, tz, angZ, sx, sy, sz) ==
    mat4Mul(mat4Translate(tx, ty, tz),
            mat4Mul(mat4RotateZ(angZ), mat4Scale(sx, sy, sz)))

\* -------------------------------------------------------------- geometry
\* makeVAO(verts): the buffer contents, the attribute slots enabled, and the
\* descriptor returned; tag stands for the vertex array object created
makeVAO(verts, tag) ==
    [vao |-> tag, count |-> (Len(verts) * Unit) \div 2, indexed |-> FALSE,
     data |-> verts, attribs |-> {0}]

\* the angle of vertex i: (i / segments) * Math.PI * 2.0
vertexAngle(i, segments) ==
    Mul(Mul(Div(i * Unit, segments * Unit), PiMilli), 2 * Unit)

\* makePolygonVAO whose loop also runs for i = segments
makePolygonVAOInclusive(segments, tag) ==
    makeVAO([j \in 1..(2 * (segments + 1)) |->
                LET t == vertexAngle((j - 1) \div 2, segments)
                IN IF j % 2 = 1 THEN MathCos(t) ELSE MathSin(t)],
            tag)

\* makePolygonVAO(segments): for i = 0 .. segments-1 push cos t, sin t
makePolygonVAO(segments, tag) ==
    makeVAO([j \in 1..(2 * segments) |->
                LET t == vertexAngle((j - 1) \div 2, segments)
                IN IF j % 2 = 1 THEN MathCos(t) ELSE MathSin(t)],
            tag)

\* vertex i (from 1) of a descriptor, as read by attribute slot 0: two floats
vertexOf(d, i) == <<d.data[2 * i - 1], d.data[2 * i]>>

\* the triangles gl.drawArrays(TRIANGLE_FAN, 0, count) assembles: all share
\* the first vertex
triangleFan(d) ==
    LET n == d.count \div Unit
    IN [k \in 1..Max2(n - 2, 0) |-> <<vertexOf(d, 1), vertexOf(d, k + 1), vertexOf(d, k + 2)>>]

\* ----------------------------------------------------------------- scene
DrawCalls == 509

\* the background points drawn by the loop of render()
NumPoints == 500

\* P1..P4 of render()
Orbits == <<400, 600, 700, 820>>

\* planets whose third is placed in front of the fourth
PlanetsOutOfOrder ==
    <<[tz |-> 400, angZ |-> 0,   sx |-> 60,  sy |-> 60,  sz |-> Unit],
      [tz |-> 600, angZ |-> 500, sx |-> 70,  sy |-> 70,  sz |-> Unit],
      [tz |-> 950, angZ |-> 0,   sx |-> 90,  sy |-> 90,  sz |-> Unit],
      [tz |-> 900, angZ |-> 0,   sx |-> 150, sy |-> 150, sz |-> Undefined]>>

\* the mat4TRS arguments after px, py of the four planet draw calls; the
\* fourth call passes six arguments, so its sz is undefined
Planets ==
    <<[tz |-> 400, angZ |-> 0,   sx |-> 60,  sy |-> 60,  sz |-> Unit],
      [tz |-> 600, angZ |-> 500, sx |-> 70,  sy |-> 70,  sz |-> Unit],
      [tz |-> 800, angZ |-> 0,   sx |-> 90,  sy |-> 90,  sz |-> Unit],
      [tz |-> 900, angZ |-> 0,   sx |-> 150, sy |-> 150, sz |-> Undefined]>>

\* results of Math.random(), in thousandths
RandomValues == {0, 250, 625}

\* within_orbit(orbit_size) when Math.random() returns rnd
within_orbit(orbit_size, rnd) ==
    LET angle == Mul(Mul(rnd, 2 * Unit), PiMilli)
    IN <<Mul(orbit_size, MathCos(angle)), Mul(orbit_size, MathSin(angle))>>

\* random_points(min, max) when Math.random() returns r1, then r2
random_points(min, max, r1, r2) ==
    <<Add(Mul(r1, max - min), min), Add(Mul(r2, max - min), min)>>

\* the argument of a draw() call: args are the arguments of its mat4TRS call
drawRequest(vaoObj, mode, color, args, pointSize) ==
    [vaoObj |-> vaoObj, mode |-> mode, color |-> color, args |-> args,
     model |-> mat4TRS(args[1], args[2], args[3], args[4], args[5], args[6],
                       args[7]),
     pointSize |-> pointSize]

\* the n-th draw() call of render(), r1 and r2 being the random numbers it
\* consumes
drawCall(n, r1, r2) ==
    CASE n = 1 ->
           drawRequest("circle", "TRIANGLE_FAN", <<1000, 918, 498, 1000>>,
                       <<0, 0, 0, 0, 120, 120, 120>>, 1)
      [] n \in 2..5 ->
           LET P == Orbits[n - 1]
           IN drawRequest("circle", "LINE_LOOP", <<1000, 1000, 1000, 800>>,
                          <<0, 0, 0, 0, P, P, P>>, 1)
      [] n \in 6..9 ->
           LET p == Planets[n - 5]
               xy == within_orbit(Orbits[n - 5], r1)
               color == <<<<655, 655, 650, 1000>>, <<114, 729, 408, 1000>>,
                          <<188, 427, 941, 1000>>, <<886, 341, 169, 1000>>>>[n - 5]
           IN drawRequest("circle", "TRIANGLE_FAN", color,
                          <<xy[1], xy[2], p.tz, p.angZ, p.sx, p.sy, p.sz>>, 1)
      [] OTHER ->
           LET xy == random_points(-4 * Unit, 4 * Unit, r1, r2)
           IN drawRequest("point", "POINTS", <<1000, 1000, 1000, 1000>>,
                          <<xy[1], xy[2], -500, 0, Unit, Unit, Unit>>, 1)

\* the primitive modes of the draw calls of one complete render pass
sceneModes == [n \in 1..(9 + NumPoints) |-> drawCall(n, 0, 0).mode]

\* render(): gl.clear, then the draw calls; draw() reads state.uniforms.color
\* first, which throws a TypeError when state.uniforms is null
render(s, g) ==
    [threw |-> s.uniforms = Null,
     draws |-> IF s.uniforms = Null THEN 0 ELSE DrawCalls,
     modes |-> IF s.uniforms = Null THEN <<>> ELSE sceneModes,
     program |-> g.program,
     uniforms |-> s.uniforms,
     circle |-> s.geo["circle"],
     point |-> s.geo["point"]]

\* frame(): returns the state and the render pass made, if any
frame(s, g) ==
    LET s1 == [s EXCEPT !._raf = 0]
    IN IF s1._dirty
       THEN LET pass == render(s1, g)
            IN [s |-> IF pass.threw THEN s1 ELSE [s1 EXCEPT !._dirty = FALSE],
                rendered |-> TRUE, pass |-> pass]
       ELSE [s |-> s1, rendered |-> FALSE,
             pass |-> [threw |-> FALSE, draws |-> 0, modes |-> <<>>, program |-> Null,
                       uniforms |-> Null, circle |-> Null, point |-> Null]]

\* ------------------------------------------------------------- UI binder
\* apply callbacks that store the value as given
applyUnclamped(c, v, s) ==
    CASE c = "cx"   -> [s EXCEPT !.cx = v]
      [] c = "cy"   -> [s EXCEPT !.cy = v]
      [] c = "ang"  -> [s EXCEPT !.ang =
                           IF v = NaN THEN NaN ELSE (v * PiMilli) \div (180 * Unit)]
      [] c = "zoom" -> [s EXCEPT !.zoom = v]
      [] c = "fov"  -> [s EXCEPT !.fovDeg = v]
      [] c = "camz" -> [s EXCEPT !.cz = v]

\* the apply callbacks of the six bindControl calls, main.js:410-419
apply(c, v, s) ==
    CASE c = "cx"   -> [s EXCEPT !.cx = v]
      [] c = "cy"   -> [s EXCEPT !.cy = v]
      [] c = "ang"  -> [s EXCEPT !.ang =
                           IF v = NaN THEN NaN ELSE (v * PiMilli) \div (180 * Unit)]
      [] c = "zoom" -> [s EXCEPT !.zoom = MathMax(1, v)]
      [] c = "fov"  -> [s EXCEPT !.fovDeg = clamp(v, 1 * Unit, 179 * Unit)]
      [] c = "camz" -> [s EXCEPT !.cz = MathMax(50, v)]

\* push(v) of bindControl for the pair c
push(c, v, s, r, g, cv) ==
    LET s1 == apply(c, ToNumber(v), s)
        m == markDirty(s1, r)
    IN [range |-> SetRangeValue(c, v), num |-> SetNumValue(v),
        s |-> m.s, r |-> m.r, g |-> uploadViewProj(s1, g, cv)]

updateUIState(s, d) ==
    [d EXCEPT !["zoom"] = (s.mode = "persp"),
              !["fov"] = ~(s.mode = "persp"),
              !["camz"] = ~(s.mode = "persp")]

\* --------------------------------------------------------- observations
Bump(n) == Min2(n + 1, 2)
\* a handler changed the state: one more change the last pass did not cover
Mutated(o) == [o EXCEPT !.unrendered = Bump(@), !.covered = 0]

Live == pc \in {"running", "failed"}

\* ------------------------------------------------------------------ Init
Init ==
    /\ state = [mode |-> "ortho", cx |-> 0, cy |-> 0, cz |-> 3 * Unit, ang |-> 0,
                zoom |-> 1 * Unit, fovDeg |-> 60 * Unit, near |-> 10,
                far |-> 100 * Unit, program |-> Null, uniforms |-> Null,
                geo |-> [k \in GeoKeys |-> Null], _dirty |-> TRUE, _raf |-> 0]
    /\ rangeVal = HtmlValue
    /\ numVal = HtmlValue
    /\ disabled = [c \in Controls |-> FALSE]
    /\ checked = "ortho"
    /\ canvas = CanvasDefault
    /\ win \in WindowSizes
    /\ raf = [queue |-> {}, issued |-> 0, sinceFrame |-> 0]
    /\ gl = [lost |-> FALSE, program |-> Null, viewProj |-> ZeroMat, gen |-> 0]
    /\ pc = "bind"
    /\ nbound = 0
    /\ obs = [passes |-> 0, covered |-> 0, unrendered |-> 0, losses |-> 0,
              cancelled |-> FALSE, initOk |-> FALSE]
    /\ calc = NoCall

\* --------------------------------------------------------------- startup
\* one bindControl call: registers the listeners and pushes numEl.value
BindControl ==
    /\ pc = "bind"
    /\ LET c == BindOrder[nbound + 1]
           u == push(c, numVal[c], state, raf, gl, canvas)
       IN /\ rangeVal' = [rangeVal EXCEPT ![c] = u.range]
          /\ numVal' = [numVal EXCEPT ![c] = u.num]
          /\ state' = u.s
          /\ raf' = u.r
          /\ gl' = u.g
    /\ nbound' = nbound + 1
    /\ pc' = IF nbound + 1 = Len(BindOrder) THEN "initGL" ELSE "bind"
    /\ obs' = Mutated(obs)
    /\ UNCHANGED <<disabled, checked, canvas, win, calc>>

\* initGL() at main.js:488; a throw ends the script before resize()
StartInitGL ==
    /\ pc = "initGL"
    /\ \E outcome \in CompileOutcomes :
          \E u \in {initGL(state, raf, gl, canvas, outcome)} :
             /\ state' = u.s
             /\ raf' = u.r
             /\ gl' = u.g
             /\ pc' = IF u.ok THEN "resize" ELSE "failed"
             /\ obs' = [obs EXCEPT !.initOk = u.ok]
    /\ UNCHANGED <<rangeVal, numVal, disabled, checked, canvas, win, nbound, calc>>

\* resize(): used by the startup call and by the resize listeners
resize(sz, s, r, g, cv, d) ==
    IF cv # sz
    THEN LET m == markDirty(s, r)
         IN [cv |-> sz, s |-> m.s, r |-> m.r, g |-> uploadViewProj(s, g, sz),
             d |-> updateUIState(s, d), changed |-> TRUE]
    ELSE [cv |-> cv, s |-> s, r |-> r, g |-> g, d |-> updateUIState(s, d),
          changed |-> FALSE]

StartResize ==
    /\ pc = "resize"
    /\ \E u \in {resize(win, state, raf, gl, canvas, disabled)} :
          /\ canvas' = u.cv
          /\ state' = u.s
          /\ raf' = u.r
          /\ gl' = u.g
          /\ disabled' = u.d
          /\ obs' = IF u.changed THEN Mutated(obs)
                    ELSE obs
    /\ pc' = "running"
    /\ UNCHANGED <<rangeVal, numVal, checked, win, nbound, calc>>

\* ---------------------------------------------------------------- events
\* "input" on the numeric field of pair c: the field holds v, push(v) runs
NumInput ==
    /\ Live /\ CanMark
    /\ \E c \in Controls : \E v \in NumInputs[c] :
          /\ ~disabled[c]
          /\ v # numVal[c]
          /\ \E u \in {push(c, v, state, raf, gl, canvas)} :
                /\ rangeVal' = [rangeVal EXCEPT ![c] = u.range]
                /\ numVal' = [numVal EXCEPT ![c] = u.num]
                /\ state' = u.s
                /\ raf' = u.r
                /\ gl' = u.g
    /\ obs' = Mutated(obs)
    /\ UNCHANGED <<disabled, checked, canvas, win, pc, nbound, calc>>

\* "input" on the slider of pair c: the slider holds v, push(v) runs
RangeInput ==
    /\ Live /\ CanMark
    /\ \E c \in Controls : \E v \in RangeInputs[c] :
          /\ ~disabled[c]
          /\ v # rangeVal[c]
          /\ \E u \in {push(c, v, state, raf, gl, canvas)} :
                /\ rangeVal' = [rangeVal EXCEPT ![c] = u.range]
                /\ numVal' = [numVal EXCEPT ![c] = u.num]
                /\ state' = u.s
                /\ raf' = u.r
                /\ gl' = u.g
    /\ obs' = Mutated(obs)
    /\ UNCHANGED <<disabled, checked, canvas, win, pc, nbound, calc>>

\* mode handler that does not upload the view-projection matrix
modeHandlerNoUpload(m, isChecked, s, r, g, cv, d) ==
    IF isChecked
    THEN LET s1 == [s EXCEPT !.mode = m]
             mk == markDirty(s1, r)
         IN [s |-> mk.s, r |-> mk.r, g |-> g, d |-> updateUIState(s1, d)]
    ELSE [s |-> s, r |-> r, g |-> g, d |-> d]

\* mode handler that also puts the camera back at the origin
modeHandlerResetting(m, isChecked, s, r, g, cv, d) ==
    IF isChecked
    THEN LET s1 == [s EXCEPT !.mode = m, !.cx = 0, !.cy = 0, !.ang = 0]
             mk == markDirty(s1, r)
         IN [s |-> mk.s, r |-> mk.r, g |-> uploadViewProj(s1, g, cv),
             d |-> updateUIState(s1, d)]
    ELSE [s |-> s, r |-> r, g |-> g, d |-> d]

\* the change handlers of modeOrtho and modePersp, main.js:422-437
modeHandler(m, isChecked, s, r, g, cv, d) ==
    IF isChecked
    THEN LET s1 == [s EXCEPT !.mode = m]
             mk == markDirty(s1, r)
         IN [s |-> mk.s, r |-> mk.r, g |-> uploadViewProj(s1, g, cv),
             d |-> updateUIState(s1, d)]
    ELSE [s |-> s, r |-> r, g |-> g, d |-> d]

\* the user selects the other radio button; "change" fires on it
ModeChange ==
    /\ Live /\ CanMark
    /\ \E m \in Modes :
          /\ m # checked
          /\ checked' = m
          /\ \E u \in {modeHandler(m, checked' = m, state, raf, gl, canvas, disabled)} :
                /\ state' = u.s
                /\ raf' = u.r
                /\ gl' = u.g
                /\ disabled' = u.d
    /\ obs' = Mutated(obs)
    /\ UNCHANGED <<rangeVal, numVal, canvas, win, pc, nbound, calc>>

\* the click handler of the reset button, main.js:440-456
resetHandler(s, r, g, cv, d, orthoChecked) ==
    LET s1 == [s EXCEPT !.cx = 0, !.cy = 0, !.ang = 0,
                        !.mode = IF orthoChecked THEN "ortho" ELSE "persp",
                        !.zoom = 1 * Unit, !.fovDeg = 60 * Unit, !.cz = 3 * Unit]
        vals == [cx |-> <<"0">>, cy |-> <<"0">>, ang |-> <<"0">>,
                 zoom |-> NumberToString(s1.zoom),
                 fov |-> NumberToString(s1.fovDeg),
                 camz |-> NumberToString(s1.cz)]
        mk == markDirty(s1, r)
    IN [range |-> [c \in Controls |-> SetRangeValue(c, vals[c])],
        num |-> [c \in Controls |-> SetNumValue(vals[c])],
        s |-> mk.s, r |-> mk.r, g |-> uploadViewProj(s1, g, cv),
        d |-> updateUIState(s1, d)]

Reset ==
    /\ Live /\ CanMark
    /\ \E u \in {resetHandler(state, raf, gl, canvas, disabled, checked = "ortho")} :
          /\ rangeVal' = u.range
          /\ numVal' = u.num
          /\ state' = u.s
          /\ raf' = u.r
          /\ gl' = u.g
          /\ disabled' = u.d
    /\ obs' = Mutated(obs)
    /\ UNCHANGED <<checked, canvas, win, pc, nbound, calc>>

\* "resize" of the window, or "change" of the resolution media query
Resize ==
    /\ Live /\ CanMark
    /\ \E sz \in WindowSizes :
          /\ sz # win
          /\ win' = sz
          /\ \E u \in {resize(sz, state, raf, gl, canvas, disabled)} :
                /\ canvas' = u.cv
                /\ state' = u.s
                /\ raf' = u.r
                /\ gl' = u.g
                /\ disabled' = u.d
                /\ obs' = IF u.changed THEN Mutated(obs)
                          ELSE obs
    /\ UNCHANGED <<rangeVal, numVal, checked, pc, nbound, calc>>

\* "webglcontextlost": the context and all its objects become invalid
ContextLost ==
    /\ Live
    /\ ~gl.lost
    /\ obs.losses < MaxLoss
    /\ gl' = [gl EXCEPT !.lost = TRUE, !.program = Null, !.viewProj = ZeroMat]
    /\ raf' = cancelAnimationFrame(raf, state._raf)
    /\ obs' = [obs EXCEPT !.losses = @ + 1, !.cancelled = (state._raf \in raf.queue)]
    /\ UNCHANGED <<state, rangeVal, numVal, disabled, checked, canvas, win, pc, nbound, calc>>

\* the "webglcontextrestored" handler: initGL(); markDirty()
restoredHandler(s, r, g, cv, outcome) ==
    LET u == initGL(s, r, g, cv, outcome)
    IN IF ~u.ok THEN u
       ELSE LET m == markDirty(u.s, u.r)
            IN [s |-> m.s, r |-> m.r, g |-> u.g, ok |-> TRUE]

ContextRestored ==
    /\ Live /\ CanMark
    /\ gl.lost
    /\ \E outcome \in CompileOutcomes :
          \E u \in {restoredHandler(state, raf, [gl EXCEPT !.lost = FALSE], canvas, outcome)} :
             /\ state' = u.s
             /\ raf' = u.r
             /\ gl' = u.g
             /\ obs' = [obs EXCEPT !.initOk = u.ok, !.cancelled = FALSE]
    /\ UNCHANGED <<rangeVal, numVal, disabled, checked, canvas, win, pc, nbound, calc>>

\* the browser delivers a requested display-refresh callback: frame() runs
Frame ==
    /\ Live
    /\ \E id \in raf.queue :
          \E f \in {frame(state, gl)} :
             /\ raf' = [raf EXCEPT !.queue = @ \ {id}, !.sinceFrame = 0]
             /\ state' = f.s
             /\ obs' = IF f.rendered
                       THEN [obs EXCEPT !.passes = @ + 1,
                                        !.covered = obs.unrendered,
                                        !.unrendered = IF f.pass.threw THEN @ ELSE 0]
                       ELSE obs
    /\ UNCHANGED <<rangeVal, numVal, disabled, checked, canvas, win, gl, pc, nbound, calc>>

Next ==
    \/ BindControl
    \/ StartInitGL
    \/ StartResize
    \/ NumInput
    \/ RangeInput
    \/ ModeChange
    \/ Reset
    \/ Resize
    \/ ContextLost
    \/ ContextRestored
    \/ Frame

Spec == Init /\ [][Next]_vars

\* ------------------------------------------------- the library, by call
\* coordinates in the vertex lists of initGeometry, main.js:201-202
Coords == {-500, 0, 500}

\* makeVAO is called with a flat vertex list
MakeVAOCall ==
    /\ calc = NoCall
    /\ \E len \in 0..MaxVerts : \E verts \in [1..len -> Coords] :
          calc' = [fn |-> "makeVAO", verts |-> verts, out |-> makeVAO(verts, 1)]
    /\ UNCHANGED page

\* makePolygonVAO is called with a segment count
MakePolygonVAOCall ==
    /\ calc = NoCall
    /\ \E n \in 0..MaxSegments :
          calc' = [fn |-> "makePolygonVAO", segments |-> n,
                   out |-> makePolygonVAO(n, 1)]
    /\ UNCHANGED page

\* the matrices given to mat4Mul: whole-number entries, few of them non-zero
Positions == {S \in SUBSET (1..16) : Cardinality(S) <= MaxNonZero}
NonZero == (-MaxEntry..MaxEntry) \ {0}

\* mat4Mul is called with the identity on the left and on the right of M
Mat4MulCall ==
    /\ calc = NoCall
    /\ \E S \in Positions : \E f \in [S -> NonZero] :
          \E M \in {[k \in 1..16 |-> IF k \in S THEN f[k] * Unit ELSE 0]} :
             calc' = [fn |-> "mat4Mul", M |-> M,
                      left |-> mat4MulArrays(mat4Identity, M),
                      right |-> mat4MulArrays(M, mat4Identity)]
    /\ UNCHANGED page

\* render() is entered with state.uniforms set: gl.clear, no draw call yet
RenderCall ==
    /\ calc = NoCall
    /\ calc' = [fn |-> "render", n |-> 0]
    /\ UNCHANGED page

\* the draw call for the sun
DrawSun ==
    /\ calc.fn = "render" /\ calc.n = 0
    /\ calc' = [fn |-> "render", n |-> 1, call |-> drawCall(1, 0, 0)]
    /\ UNCHANGED page

\* the draw calls for the four orbit rings
DrawOrbit ==
    /\ calc.fn = "render" /\ calc.n \in 1..4
    /\ calc' = [fn |-> "render", n |-> calc.n + 1,
                call |-> drawCall(calc.n + 1, 0, 0)]
    /\ UNCHANGED page

\* the draw calls for the four planets, each after a call of within_orbit
DrawPlanet ==
    /\ calc.fn = "render" /\ calc.n \in 5..8
    /\ \E rnd \in RandomValues :
          calc' = [fn |-> "render", n |-> calc.n + 1,
                   call |-> drawCall(calc.n + 1, rnd, 0)]
    /\ UNCHANGED page

\* one iteration of the loop over the background points
DrawPoint ==
    /\ calc.fn = "render" /\ calc.n >= 9 /\ calc.n - 9 < NumPoints
    /\ \E r1 \in RandomValues : \E r2 \in RandomValues :
          calc' = [fn |-> "render", n |-> calc.n + 1,
                   call |-> drawCall(calc.n + 1, r1, r2)]
    /\ UNCHANGED page

\* the call returns; render() returns when its loop has ended
Return ==
    /\ \/ calc.fn \in {"makeVAO", "makePolygonVAO", "mat4Mul"}
       \/ calc.fn = "render" /\ calc.n = 9 + NumPoints
    /\ calc' = NoCall
    /\ UNCHANGED page

CalcNext ==
    \/ MakeVAOCall
    \/ MakePolygonVAOCall
    \/ Mat4MulCall
    \/ RenderCall
    \/ DrawSun
    \/ DrawOrbit
    \/ DrawPlanet
    \/ DrawPoint
    \/ Return

CalcSpec == Init /\ [][CalcNext]_vars

\* ------------------------------------------------------------ properties
\* a step in which frame() ran: only frame() sets state._raf back to 0
FrameRan == state._raf # 0 /\ state'._raf = 0

\* C1: when, after startup, a context-lost event cancelled a pending
\* display-refresh callback and the restored handler rebuilt the GL state, a callback
\* is requested with the browser again once the handler has finished.
C1_RerequestedAfterRestore ==
    [][(pc = "running" /\ gl.lost /\ ~gl'.lost /\ obs.cancelled /\ obs'.initOk)
          => raf'.queue # {}]_vars

\* C2: at most one display-refresh callback is outstanding with the
\* browser, and at most one has been requested since the last frame ran.
C2_AtMostOneCallback ==
    /\ Cardinality(raf.queue) <= 1
    /\ raf.sinceFrame <= 1

C2_Witness ==
    /\ obs.passes > 0
    /\ obs.losses > 0
    /\ obs.unrendered = 2
    /\ Cardinality(raf.queue) = 1

\* C3: a run of frame() with the dirty flag set makes exactly one render
\* pass and ends with the flag clear, state._raf = 0 and no callback
\* requested; with the flag clear it makes none; and a render pass starts
\* only in frame() with the flag set.
C3_FrameRendersOnce ==
    [][/\ (FrameRan /\ state._dirty)
             => /\ obs'.passes = obs.passes + 1
                /\ ~state'._dirty
                /\ raf'.queue = {}
       /\ (FrameRan /\ ~state._dirty) => obs'.passes = obs.passes
       /\ obs'.passes # obs.passes => (FrameRan /\ state._dirty)]_vars

\* C4: after a successful startup and without context loss, mutations not
\* yet rendered leave the dirty flag set with the callback outstanding, and
\* the next callback covers all of them with one complete render pass.
C4_MutationsCoalesced ==
    [][(pc' = "running" /\ obs'.losses = 0)
          => /\ obs'.unrendered > 0
                   => (state'._dirty /\ state'._raf \in raf'.queue)
             /\ FrameRan
                   => /\ obs.unrendered > 0
                      /\ obs'.passes = obs.passes + 1
                      /\ obs'.covered = obs.unrendered
                      /\ render(state, gl).draws = DrawCalls
                      /\ obs'.unrendered = 0
                      /\ ~state'._dirty]_vars

C4_Witness ==
    /\ pc = "running"
    /\ obs.losses = 0
    /\ obs.passes = 2
    /\ obs.covered = 2
    /\ obs.unrendered = 0

\* the last initGL call was made by the restored handler and succeeded
RestoredOk == obs.initOk /\ gl.gen >= 2

\* C5: after a restoration whose rebuild succeeded, the program, the
\* uniform handles and the six geometry descriptors are those of that
\* initGL call, and every render pass made from then on uses only those.
C5_HandlesRebuilt ==
    [][/\ RestoredOk'
             => /\ state'.program = gl'.gen
                /\ state'.uniforms = gl'.gen
                /\ \A k \in GeoKeys : state'.geo[k] = gl'.gen
       /\ (RestoredOk /\ FrameRan /\ state._dirty)
             => LET pass == render(state, gl)
                IN /\ pass.uniforms = gl.gen
                   /\ pass.circle = gl.gen
                   /\ pass.point = gl.gen
                   /\ pass.program \in {gl.gen, Null}
                   /\ pass.program = Null => gl.lost]_vars

\* a render pass has run to its end after a successful restoration
C5_Witness ==
    /\ RestoredOk
    /\ ~gl.lost
    /\ ~state._dirty
    /\ obs.passes >= 2

\* C6: when a shader stage or the link fails at startup, state.program and
\* state.uniforms stay null and no render pass is made afterwards.
C6_NoRenderAfterFailedStart ==
    pc = "failed"
      => /\ obs.passes = 0
         /\ gl.gen = 1 => (state.program = Null /\ state.uniforms = Null)

\* C7: in every state in which a render pass can start with a program in
\* use, the view-projection matrix held by that program is the one computed
\* from the current mode, camera position, yaw, zoom, FOV and canvas size.
C7_ViewProjCurrent ==
    (gl.program # Null /\ state._dirty /\ raf.queue # {})
       => gl.viewProj = computeViewProj(state, canvas)

\* a render pass is about to start after a mode change and control inputs
C7_Witness ==
    /\ pc = "running"
    /\ obs.passes >= 1
    /\ gl.program # Null
    /\ state._dirty
    /\ raf.queue # {}
    /\ state.mode = "persp"
    /\ state.fovDeg = 179 * Unit
    /\ state.cx # 0

\* the numeric field of pair c holds a number: the last value pushed to the
\* pair was numeric
HoldsNumber(c) == IsValidFloat(numVal[c])

\* C8: after numeric control inputs state.zoom is at least 0.001,
\* state.fovDeg is within [1, 179], and the divisor of the orthographic
\* half-height is a positive number.
C8_ZoomFovClamped ==
    /\ HoldsNumber("zoom")
          => /\ state.zoom >= 1
             /\ orthoDivisor(state) > 0
    /\ HoldsNumber("fov")
          => /\ state.fovDeg >= 1 * Unit
             /\ state.fovDeg <= 179 * Unit

C8_Witness ==
    /\ pc = "running"
    /\ numVal["zoom"] = <<"-", "2">>
    /\ state.zoom = 1
    /\ numVal["fov"] = <<"5", "0", "0">>
    /\ state.fovDeg = 179 * Unit

\* C9: a mode change sets state.mode and leaves cx, cy, cz, ang, zoom,
\* fovDeg, near and far as they were.
C9_ModeChangeKeepsCamera ==
    [][checked' # checked
          => /\ state'.mode = checked'
             /\ state'.cx = state.cx
             /\ state'.cy = state.cy
             /\ state'.cz = state.cz
             /\ state'.ang = state.ang
             /\ state'.zoom = state.zoom
             /\ state'.fovDeg = state.fovDeg
             /\ state'.near = state.near
             /\ state'.far = state.far]_vars

\* reached only by a change back to orthographic after camera depth, which
\* is editable in perspective mode only, was changed
C9_Witness ==
    /\ pc = "running"
    /\ state.mode = "ortho"
    /\ checked = "ortho"
    /\ state.cz = 50
    /\ state.cx = -1500
    /\ state.ang # 0

\* C10: after startup the slider and the numeric field of each of the six
\* pairs hold the same value.
C10_PairsMirrored ==
    pc = "running"
      => \A c \in Controls : ToNumber(rangeVal[c]) = ToNumber(numVal[c])

\* the camera parameter stored for pair c
param(c, s) ==
    CASE c = "cx"   -> s.cx
      [] c = "cy"   -> s.cy
      [] c = "ang"  -> s.ang
      [] c = "zoom" -> s.zoom
      [] c = "fov"  -> s.fovDeg
      [] c = "camz" -> s.cz

\* the stored form of a shown number: yaw is shown in degrees and stored in
\* radians, main.js:412
stored(c, n) == IF c = "ang" THEN (n * PiMilli) \div (180 * Unit) ELSE n

\* C11: after startup, whenever the numeric field of a pair holds a number,
\* the camera parameter stored in state is that number (for yaw, that number
\* of degrees converted to radians).
C11_PairShowsState ==
    pc = "running"
      => \A c \in Controls :
            HoldsNumber(c) => param(c, state) = stored(c, ToNumber(numVal[c]))

OnUnitCircle(v) ==
    LET d == Add(Mul(v[1], v[1]), Mul(v[2], v[2]))
    IN d >= Unit - 5 /\ d <= Unit + 5

\* C13: for segments = n >= 3 the descriptor draws as a fan of n triangles,
\* each with one vertex at the origin and two on the unit circle, and it
\* carries a colour attribute for the centre and edge colours.
C13_FanOfNTriangles ==
    (calc.fn = "makePolygonVAO" /\ calc.segments >= 3)
      => LET fan == triangleFan(calc.out)
         IN /\ Len(fan) = calc.segments
            /\ \A k \in 1..Len(fan) :
                  /\ fan[k][1] = <<0, 0>>
                  /\ OnUnitCircle(fan[k][2])
                  /\ OnUnitCircle(fan[k][3])
            /\ 1 \in calc.out.attribs

C17_IdentityLaws ==
    calc.fn = "mat4Mul"
      => /\ \A k \in 1..16 : calc.left.o[k] = calc.M[k]
         /\ \A k \in 1..16 : calc.right.o[k] = calc.M[k]
         /\ calc.left.B = mat4Identity /\ calc.left.A = calc.M
         /\ calc.right.B = calc.M /\ calc.right.A = mat4Identity

\* M has two non-zero elements off the diagonal, not mirror images of each
\* other, one of them negative
C17_Witness ==
    /\ calc.fn = "mat4Mul"
    /\ calc.M[idx4(0, 1) + 1] = -2 * Unit
    /\ calc.M[idx4(3, 2) + 1] = 1 * Unit
    /\ calc.left.o = calc.M
    /\ calc.right.o = calc.M


\* the draw calls the scene description lists: the sun, four rings, four
\* planets, then the background points
ListedModes ==
    [n \in 1..509 |-> IF n = 1 THEN "TRIANGLE_FAN"
                      ELSE IF n <= 5 THEN "LINE_LOOP"
                      ELSE IF n <= 9 THEN "TRIANGLE_FAN"
                      ELSE "POINTS"]

\* C15: every render pass issues exactly 509 draw calls, in the same
\* sequence each time -- the filled sun, four ring outlines, four filled
\* planets, then 500 points -- whatever the camera state and whatever
\* happened in earlier passes.
C15_Every509Draws ==
    [][(FrameRan /\ state._dirty)
          => /\ render(state, gl).draws = 509
             /\ render(state, gl).modes = ListedModes]_vars

\* the z translation of the model matrix of a draw call
depth(call) == call.model[idx4(2, 3) + 1]

\* a step of render() that issues a draw call after an earlier one
NextDraw ==
    /\ calc.fn = "render" /\ calc.n >= 1
    /\ calc'.fn = "render" /\ calc'.n = calc.n + 1

\* C16 as stated: within a render pass the z values of successive draw
\* calls never decrease.
C16_BackToFront ==
    [][NextDraw => depth(calc'.call) >= depth(calc.call)]_vars

\* C16: within a render pass the z values of the first nine draw calls (the
\* sun, the rings, the planets) never decrease, and the 500 background
\* points, at z = -0.5 behind all of those, are drawn after them.
C16_ObjectsBackToFront ==
    [][NextDraw
          => /\ calc'.n <= 9 => /\ depth(calc'.call) >= depth(calc.call)
                                /\ depth(calc.call) > -500
             /\ calc'.n > 9 => /\ depth(calc'.call) = -500
                               /\ depth(calc'.call) <= depth(calc.call)]_vars

\* the last background point has been drawn, behind the nine objects before
C16_Witness ==
    /\ calc.fn = "render"
    /\ calc.n = 509
    /\ calc.call.mode = "POINTS"
    /\ depth(calc.call) = -500

\* a JavaScript number other than NaN
IsNumber(v) == v # Undefined /\ v # NaN

\* C19: every draw call of a render pass gets a model matrix that mat4TRS
\* built from seven defined numeric arguments, so all 16 entries of the
\* matrix are numbers.
C19_ModelMatrixNumeric ==
    (calc.fn = "render" /\ calc.n >= 1)
       => /\ \A i \in 1..7 : IsNumber(calc.call.args[i])
          /\ \A k \in 1..16 : IsNumber(calc.call.model[k])

\* C18: between a context-lost event and the following context-restored
\* event no render pass runs, whatever the scheduler state at the loss and
\* whatever inputs arrive while the context is lost.
C18_NoRenderWhileLost ==
    [][(pc = "running" /\ gl.lost /\ gl'.lost) => obs'.passes = obs.passes]_vars

====
